---- MODULE Spec2Model ----
(***************************************************************************)
(* Model of Eq_SciPy_ARM.py: an octave-band equalizer that designs one     *)
(* Butterworth band-pass cascade per band, filters the input once with     *)
(* SciPy (floating path) and once with the CMSIS-DSP Q31 biquad cascade    *)
(* (fixed-point path), and sums the bands.                                 *)
(*                                                                         *)
(* Number representations                                                  *)
(*  - a frequency is [m, h], the real number m * 2^(h/2); the octave       *)
(*    centres have even h and the log-midpoint edges odd h, so the model   *)
(*    computes the planner in exact real arithmetic (IEEE rounding of      *)
(*    log10 and ** is not modelled);                                       *)
(*  - a filter coefficient is an integer numerator over CoefDen;           *)
(*  - an input sample is an integer numerator over SigDen;                 *)
(*  - the Q format has QBITS fractional bits and a word of QBITS+1 bits.   *)
(*    The source uses 31; TLC's integers are 32 bits wide, so the width    *)
(*    is a parameter of the model and every formula is stated in terms     *)
(*    of it.                                                               *)
(***************************************************************************)
EXTENDS Integers, Sequences, FiniteSets, TLC

\* ---------------------------------------------------------------- constants
BASE_FREQUENCY == 100
NUM_BANDS == 6
FS == 16000
NUMSTAGES == 3
ConfiguredPostShift == 4

\* ------------------------------------------------------------------- bounds
QBITS == 12
CoefDen == 3
SigDen == 4
MaxSigLen == 2
MaxPostShift == 5
MaxBandCount == 8
MaxBaseFrequency == 12
MaxCalls == 4

VARIABLES
    POSTSHIFT,        \* configuration: the scale-shift constant
    GENERATE_SIGNAL,  \* configuration: synthesise the input or load a file
    butter_table,     \* which numeric table scipy.signal.butter realises
    input_signal,     \* self.input_signal (None is <<>>)
    signal_fs,        \* the rate the samples of input_signal were taken at
    sos_list,         \* self.sos_list
    frequencies,      \* self.frequencies
    edges,            \* self.edges
    coefs,            \* self.coefs
    plan_args,        \* arguments of the latest calculate_centers call
    design_log,       \* what plot_bandpass_filter_response printed, per band
    design_calls,     \* design invocations that returned normally
    design_raised,    \* design invocations that raised
    scipy_out,        \* samples written to SCIPY_OUT_FILENAME (<<>>: none)
    arm_out,          \* samples written to ARM_OUT_FILENAME (<<>>: none)
    engines,          \* the Q31 instances of the latest fixed-point run
    raised,           \* the exception the latest call ended with
    calls,            \* number of method calls made on the object
    pc                \* position of the script, or "api"

vars == <<POSTSHIFT, GENERATE_SIGNAL, butter_table, input_signal, signal_fs,
          sos_list, frequencies, edges, coefs, plan_args, design_log,
          design_calls, design_raised, scipy_out, arm_out, engines, raised,
          calls, pc>>

cfgVars == <<POSTSHIFT, GENERATE_SIGNAL, butter_table>>

\* ------------------------------------------------------------------ numbers
RECURSIVE Pow(_, _)
Pow(b, n) == IF n <= 0 THEN 1 ELSE b * Pow(b, n - 1)

Abs(x) == IF x < 0 THEN -x ELSE x

Min(a, b) == IF a < b THEN a ELSE b

None == <<>>

\* The element of a singleton set. TLC evaluates a LET definition anew at each
\* use; `Only({e(v) : v \in {x}})` evaluates x once and is e(x).
Only(S) == CHOOSE v \in S : TRUE

\* np.round: round half to even, of the rational num/den (den > 0).
RoundHalfEven(num, den) ==
    LET q == num \div den
        r == num % den
    IN  IF 2 * r < den THEN q
        ELSE IF 2 * r > den THEN q + 1
        ELSE IF q % 2 = 0 THEN q ELSE q + 1

\* A C cast of a finite double to an integer: truncation toward zero.
TruncDiv(num, den) ==
    IF num >= 0 THEN num \div den ELSE -((-num) \div den)

QOne == Pow(2, QBITS)
MinQ == -QOne
MaxQ == QOne - 1
InRangeQ(x) == MinQ <= x /\ x <= MaxQ

\* Two's complement wrap to the Q word.
WrapQ(x) == ((x + QOne) % (2 * QOne)) - QOne

\* A float64 that is finite, infinite or NaN.
Fin(v) == [k |-> "fin", v |-> v]
Inf(s) == [k |-> "inf", v |-> s]
NaN == [k |-> "nan", v |-> 0]

\* ------------------------------------------------------------- BandPlanner
\* base_frequency * 2**i, for i >= -1.
OctaveCenter(f, i) == [m |-> f, h |-> 2 * i]

\* The edge placed on the lower centre instead of the midpoint.
LogMidpoint_lower(lo, hi) == [m |-> lo.m, h |-> lo.h]

\* 10**(log10(lo) + (log10(hi) - log10(lo)) / 2) for two centres of the same
\* base: the half-octave exponent is the midpoint of the two exponents.
LogMidpoint(lo, hi) == [m |-> lo.m, h |-> lo.h + (hi.h - lo.h) \div 2]

\* [f * 2**i for i in range(-1, n)] and the edges between neighbours.
PlanFrequencies(f, n) == [k \in 1..(n + 1) |-> OctaveCenter(f, k - 2)]

PlanEdges(fr) == [k \in 1..(Len(fr) - 1) |-> LogMidpoint(fr[k], fr[k + 1])]

\* Exact comparisons of frequencies: x < y  iff  x^2 < y^2, with the squares
\* m^2 * 2^h brought to a common power of two.
SqRel(x, base) == x.m * x.m * Pow(2, x.h - base)
FreqLess(x, y) == SqRel(x, Min(x.h, y.h)) < SqRel(y, Min(x.h, y.h))

\* x < hz for an integer hz (h >= -2): 4 x^2 < 4 hz^2.
FreqBelowHz(x, hz) == x.m * x.m * Pow(2, x.h + 2) < 4 * hz * hz
FreqIsHz(x, hz) == x.m * x.m * Pow(2, x.h + 2) = 4 * hz * hz
FreqPositive(x) == x.m > 0

calculate_centers(base_frequency, num_bands) ==
    /\ frequencies' = PlanFrequencies(base_frequency, num_bands)
    /\ edges' = PlanEdges(PlanFrequencies(base_frequency, num_bands))
    /\ plan_args' = [f |-> base_frequency, n |-> num_bands]
    /\ raised' = "none"
    /\ UNCHANGED <<input_signal, signal_fs, sos_list, coefs, design_log,
                   design_calls, design_raised, scipy_out, arm_out, engines>>

\* --------------------------------------------------------- BandpassDesigner
\* scipy.signal.butter accepts the band only if 0 < low < high < 1 after
\* division by the Nyquist frequency fs/2, and raises ValueError otherwise.
ButterAccepts(lowcut, highcut, fs) ==
    /\ FreqPositive(lowcut)
    /\ FreqLess(lowcut, highcut)
    /\ highcut.m * highcut.m * Pow(2, highcut.h + 2) < fs * fs

\* butter + tf2zpk + zpk2sos. SciPy's numerics are not reproduced: the result
\* is a stable cascade of `order` sections [b0, b1, b2, 1, a1, a2] (numerators
\* over CoefDen, a0 = 1 left implicit) that is a function of the band's edges
\* and of butter_table. The three section shapes are those zpk2sos gives a
\* band-pass: zeros (-1,-1), (+1,-1), (+1,+1).
ButterSection(s, g, table) ==
    IF s % 3 = 1 THEN
        [b0 |-> 1 + g, b1 |-> 2 * (1 + g), b2 |-> 1 + g,
         a1 |-> -(CoefDen + 1), a2 |-> CoefDen - 1]
    ELSE IF s % 3 = 2 THEN
        [b0 |-> CoefDen, b1 |-> 0, b2 |-> -CoefDen,
         a1 |-> table - CoefDen, a2 |-> 1]
    ELSE
        [b0 |-> CoefDen, b1 |-> -2 * CoefDen, b2 |-> CoefDen,
         a1 |-> 2 - g, a2 |-> 1]

butter_bandpass(lowcut, highcut, fs, i, order) ==
    [s \in 1..order |->
        ButterSection(s, ((lowcut.h + 1) \div 2) % 2, butter_table)]

\* ------------------------------------------------------ FixedPointQuantizer
\* A row with the feedback terms not negated.
StageCoefs_no_flip(st) == <<st.b0, st.b1, st.b2, st.a1, st.a2>>

\* One row of np.hstack((sos[:,:3], -sos[:,4:])).
StageCoefs(st) == <<st.b0, st.b1, st.b2, -st.a1, -st.a2>>

\* np.reshape(..., NUMSTAGES * 5): the rows one after the other.
FlatCoefs(sos) ==
    [k \in 1..(5 * Len(sos)) |->
        StageCoefs(sos[((k - 1) \div 5) + 1])[((k - 1) % 5) + 1]]

\* The divisor of `coefs / (POSTSHIFT ** 2)`.
CoefDivisor(postshift) == postshift * postshift

\* np.round((c / divisor) * 2**QBITS) for the coefficient c = num / CoefDen.
\* NumPy divides by zero without raising: +-inf, or nan for 0/0.
QuantizeCoef(num, divisor) ==
    IF divisor = 0
    THEN IF num > 0 THEN Inf(1) ELSE IF num < 0 THEN Inf(-1) ELSE NaN
    ELSE Fin(RoundHalfEven(num * QOne, CoefDen * divisor))

QuantizeCascade(sos, divisor) ==
    [k \in 1..(5 * Len(sos)) |-> QuantizeCoef(FlatCoefs(sos)[k], divisor)]

\* ------------------------------------------- plot_bandpass_filter_response
\* Band i (0-based) reads edges[i] and edges[i + 1].
Lowcut(i) == edges[i + 1]
Highcut(i) == edges[i + 2]

BandDesignable(i) ==
    /\ i + 2 <= Len(edges)
    /\ ButterAccepts(Lowcut(i), Highcut(i), FS)

\* The number of bands the loop completes before it raises (NUM_BANDS: none).
RECURSIVE DesignedBands(_)
DesignedBands(i) ==
    IF i = NUM_BANDS \/ ~BandDesignable(i) THEN i ELSE DesignedBands(i + 1)

DesignedCascade(i) == butter_bandpass(Lowcut(i), Highcut(i), FS, i, NUMSTAGES)

plot_bandpass_filter_response ==
    LET done == DesignedBands(0)
        ok == done = NUM_BANDS
    IN  /\ sos_list' = sos_list \o [k \in 1..done |-> DesignedCascade(k - 1)]
        /\ design_log' = design_log \o
              [k \in 1..done |->
                 [lowcut |-> Lowcut(k - 1), highcut |-> Highcut(k - 1),
                  divisor |-> CoefDivisor(POSTSHIFT),
                  coefsQ31 |-> QuantizeCascade(DesignedCascade(k - 1),
                                               CoefDivisor(POSTSHIFT))]]
        /\ raised' = IF ok THEN "none"
                     ELSE IF done + 2 > Len(edges) THEN "IndexError"
                     ELSE "ValueError"
        /\ design_calls' = IF ok THEN design_calls + 1 ELSE design_calls
        /\ design_raised' = IF ok THEN design_raised ELSE design_raised + 1
        /\ UNCHANGED <<input_signal, signal_fs, frequencies, edges, coefs,
                       plan_args, scipy_out, arm_out, engines>>

\* ------------------------------------------------------------- SignalSource
\* The first MaxSigLen samples of sin(2 pi 80 t) + 0.25 sin(2 pi 2000 t) at
\* FS, to the nearest 1/SigDen: 0, then about a quarter.
GeneratedSignal == [t \in 1..MaxSigLen |-> IF t = 1 THEN 0 ELSE 1]

generate_input_signal ==
    /\ input_signal' = GeneratedSignal
    /\ signal_fs' = FS
    /\ raised' = "none"
    /\ UNCHANGED <<sos_list, frequencies, edges, coefs, plan_args, design_log,
                   design_calls, design_raised, scipy_out, arm_out, engines>>

\* What a file can hold: samples in [-1, 1] at the file's own rate.
SampleValues == {-SigDen, 1, SigDen}
Signals == UNION {[1..n -> SampleValues] : n \in 1..MaxSigLen}
FileRates == {FS, 44100}

\* librosa.load(filename, sr=None) returns the samples and the file's rate;
\* the rate is then overwritten by self.fs and never compared with it.
load_input_signal(samples, file_fs) ==
    /\ input_signal' = samples
    /\ signal_fs' = file_fs
    /\ raised' = "none"
    /\ UNCHANGED <<sos_list, frequencies, edges, coefs, plan_args, design_log,
                   design_calls, design_raised, scipy_out, arm_out, engines>>

\* ----------------------------------------------------------------- BandMixer
\* `signal_list[0] *= 1`: the equalization hook, gain 1 on the first band.
BandGain == 1

ScaleFirstBand(signal_list) ==
    [signal_list EXCEPT
        ![1] = [t \in 1..Len(signal_list[1]) |-> signal_list[1][t] * BandGain]]

\* np.sum(signal_list, axis=0): the sample-wise sum, band 0 first.
RECURSIVE SumBands(_, _, _)
SumBands(signal_list, t, n) ==
    IF n = 0 THEN 0 ELSE SumBands(signal_list, t, n - 1) + signal_list[n][t]

RECURSIVE MixSamples(_, _, _)
MixSamples(signal_list, t, out) ==
    IF t > Len(signal_list[1]) THEN out
    ELSE MixSamples(signal_list, t + 1,
                    Append(out, SumBands(signal_list, t, Len(signal_list))))

\* The sum normalised by the number of bands.
MixBands_mean(signal_list) ==
    [t \in 1..Len(signal_list[1]) |->
        SumBands(signal_list, t, Len(signal_list)) \div Len(signal_list)]

MixBands(signal_list) ==
    Only({MixSamples(sl, 1, <<>>) : sl \in {signal_list}})

\* -------------------------------------------------- floating path (sosfilt)
\* One second-order section over the whole buffer, from zero initial
\* conditions, in exact rational arithmetic:
\*   y[t] = b0 x[t] + b1 x[t-1] + b2 x[t-2] - a1 y[t-1] - a2 y[t-2].
\* With x in units of 1/U the result is in units of 1/(U * CoefDen^Len(x)),
\* which makes every division below exact.
RECURSIVE SosSamples(_, _, _, _, _)
SosSamples(st, x, K, t, y) ==
    IF t > Len(x) THEN y
    ELSE LET xa(k) == IF k >= 1 THEN x[k] ELSE 0
             ya(k) == IF k >= 1 THEN y[k] ELSE 0
             yt == K * (st.b0 * x[t] + st.b1 * xa(t - 1) + st.b2 * xa(t - 2))
                   - ((st.a1 * ya(t - 1) + st.a2 * ya(t - 2)) \div CoefDen)
         IN  Only({SosSamples(st, x, K, t + 1, y1) : y1 \in {Append(y, yt)}})

SosSection(st, x) == SosSamples(st, x, Pow(CoefDen, Len(x) - 1), 1, <<>>)

RECURSIVE SosCascade(_, _, _)
SosCascade(sos, x, n) ==
    IF n = 0 THEN x
    ELSE Only({SosSection(sos[n], x1) : x1 \in {SosCascade(sos, x, n - 1)}})

\* scipy.signal.sosfilt(sos, x): numerators over SigDen * CoefDen^(stages*len).
sosfilt(sos, x) == SosCascade(sos, x, Len(sos))

\* [sosfilt(sos, self.input_signal) for sos in self.sos_list]
FilteredBands ==
    IF input_signal = None THEN <<>>
    ELSE <<>> \o [k \in 1..Len(sos_list) |-> sosfilt(sos_list[k], input_signal)]

apply_filters_and_print_python ==
    \E signal_list \in {FilteredBands} :
        /\ raised' = IF sos_list # <<>> /\ input_signal = None THEN "ValueError"
                     ELSE IF sos_list = <<>> THEN "IndexError"
                     ELSE "none"
        /\ scipy_out' = IF signal_list # <<>>
                        THEN MixBands(ScaleFirstBand(signal_list)) ELSE scipy_out
        /\ UNCHANGED <<input_signal, signal_fs, sos_list, frequencies, edges,
                       coefs, plan_args, design_log, design_calls,
                       design_raised, arm_out, engines>>

\* ------------------------------------------ fixed-point path (CMSIS-DSP Q31)
\* The conversion of a float64 array to the q31 array the C function takes is
\* a C cast. Out of range, infinite or NaN, its result is undefined: x86 gives
\* the "integer indefinite" value (the minimum), ARM saturates and turns NaN
\* into 0.
CastOutcomes == {"indefinite", "saturate"}

CastQ31(x, u) ==
    IF x.k = "fin" /\ InRangeQ(x.v) THEN x.v
    ELSE IF u = "indefinite" THEN MinQ
    ELSE IF x.k = "nan" THEN 0
    ELSE IF x.v > 0 THEN MaxQ ELSE MinQ

\* The rounded coefficient x is not representable as a Q word.
Overflows(x) == x.k # "fin" \/ ~InRangeQ(x.v)

\* A state buffer that is not cleared.
NewState_uncleared == [k \in 1..(NUMSTAGES * 4) |-> 1]

\* np.zeros(NUMSTAGES * 4): Xn1, Xn2, Yn1, Yn2 of every stage.
NewState == [k \in 1..(NUMSTAGES * 4) |-> 0]

\* One direct-form-I stage of arm_biquad_cascade_df1_q31 over the buffer:
\*   acc = b0 x[n] + b1 x[n-1] + b2 x[n-2] + a1 y[n-1] + a2 y[n-2]
\*   y[n] = (q31) (acc >> (QBITS - postShift))
\* c is the stage's five coefficients, s its four state words.
RECURSIVE Df1Samples(_, _, _, _, _, _)
Df1Samples(c, s, x, postShift, t, out) ==
    IF t > Len(x) THEN [out |-> out, state |-> s]
    ELSE LET acc == c[1] * x[t] + c[2] * s[1] + c[3] * s[2]
                    + c[4] * s[3] + c[5] * s[4]
             yn == WrapQ(acc \div Pow(2, QBITS - postShift))
         IN  Only({Df1Samples(c, <<x[t], s[1], y, s[3]>>, x, postShift, t + 1,
                              Append(out, y)) : y \in {yn}})

Df1Stage(c, s, x, postShift) == Df1Samples(c, s, x, postShift, 1, <<>>)

\* The cascade: stage n filters the output of stage n - 1 and owns the state
\* words 4(n-1)+1 .. 4n.
RECURSIVE Df1Cascade(_, _, _, _, _)
Df1Cascade(pCoeffs, pState, x, postShift, n) ==
    IF n = 0 THEN [out |-> x, state |-> <<>>]
    ELSE Only({
           Only({[out |-> st.out, state |-> prev.state \o st.state] :
                 st \in {Df1Stage(SubSeq(pCoeffs, 5 * n - 4, 5 * n),
                                  SubSeq(pState, 4 * n - 3, 4 * n),
                                  prev.out, postShift)}}) :
           prev \in {Df1Cascade(pCoeffs, pState, x, postShift, n - 1)}})

\* self.input_signal * 2**QBITS / 4, cast to q31.
SignalQ31(x, u) ==
    [t \in 1..Len(x) |-> CastQ31(Fin(TruncDiv(x[t] * QOne, 4 * SigDen)), u)]

\* `res2 *= 4` on the int32 result array (wraps), then `/ 2**QBITS`: the
\* numerators over 2^QBITS of the band's output.
RescaleQ31(out) == [t \in 1..Len(out) |-> WrapQ(out[t] * 4)]

\* One pass of the loop body for band i (0-based). `run` is FALSE when the
\* body raises after the instance was initialised (input_signal is None).
EngineRecord(i, quant, pCoeffs, state, src, run, res) ==
    [band |-> i,
     divisor |-> CoefDivisor(POSTSHIFT),
     coefsQ31 |-> quant,
     pCoeffs |-> pCoeffs,
     postShift |-> POSTSHIFT,
     pState0 |-> state,
     pStateN |-> IF run THEN res.state ELSE state,
     src |-> src,
     ran |-> run,
     out |-> IF run THEN res.out ELSE <<>>,
     res2 |-> IF run THEN RescaleQ31(res.out) ELSE <<>>]

BandEngine(i, u, run) ==
    Only({
      Only({
        Only({EngineRecord(i, quant, pCoeffs, state, src, run, res) :
              res \in {Df1Cascade(pCoeffs, state, src, POSTSHIFT, NUMSTAGES)}}) :
        pCoeffs \in {<<>> \o [k \in 1..Len(quant) |-> CastQ31(quant[k], u)]},
        state \in {NewState},
        src \in {IF run THEN <<>> \o SignalQ31(input_signal, u) ELSE <<>>}}) :
      quant \in {<<>> \o QuantizeCascade(sos_list[i + 1], CoefDivisor(POSTSHIFT))}})

\* The instances the loop creates before it ends or raises: none when
\* sos_list is empty, band 0's alone (initialised, not run) when input_signal
\* is None, else one per cascade up to NUM_BANDS.
BandEngines(u) ==
    IF sos_list = <<>> THEN <<>>
    ELSE IF input_signal = None THEN <<BandEngine(0, u, FALSE)>>
    ELSE <<>> \o [k \in 1..Min(NUM_BANDS, Len(sos_list)) |->
                    BandEngine(k - 1, u, TRUE)]

apply_filters_and_print_ARM(u) ==
    \E made \in {BandEngines(u)} :
      LET n == Len(made)
          ok == input_signal # None /\ n = NUM_BANDS
      IN  /\ engines' = IF n = 0 THEN engines ELSE made
          /\ coefs' = IF n = 0 THEN coefs ELSE made[n].coefsQ31
          /\ raised' = IF n = 0 THEN "IndexError"
                       ELSE IF input_signal = None THEN "TypeError"
                       ELSE IF n < NUM_BANDS THEN "IndexError"
                       ELSE "none"
          /\ arm_out' = IF ok
                        THEN MixBands(ScaleFirstBand([k \in 1..n |-> made[k].res2]))
                        ELSE arm_out
          /\ UNCHANGED <<input_signal, signal_fs, sos_list, frequencies, edges,
                         plan_args, design_log, design_calls, design_raised,
                         scipy_out>>

\* ------------------------------------------------------------ construction
ButterTables == {0, 1}

\* SignalProcessor.__init__
NewProcessor ==
    /\ input_signal = None
    /\ signal_fs = FS
    /\ sos_list = <<>>
    /\ frequencies = <<>>
    /\ edges = <<>>
    /\ coefs = <<>>
    /\ plan_args = [f |-> 0, n |-> 0]
    /\ design_log = <<>>
    /\ design_calls = 0
    /\ design_raised = 0
    /\ scipy_out = <<>>
    /\ arm_out = <<>>
    /\ engines = <<>>
    /\ raised = "none"
    /\ calls = 0

\* ------------------------------------------------------ the script (__main__)
\* The run of the script for every setting of the two switches the claims
\* quantify over, POSTSHIFT and GENERATE_SIGNAL.
Init ==
    /\ POSTSHIFT \in 0..MaxPostShift
    /\ GENERATE_SIGNAL \in BOOLEAN
    /\ butter_table \in ButterTables
    /\ NewProcessor
    /\ pc = "start"

\* The number of filtered bands passed on as it is.
MainBandCount_bands == NUM_BANDS

\* The band count the script passes to calculate_centers.
MainBandCount == NUM_BANDS + 1

Step(from, to) ==
    /\ pc = from
    /\ pc' = IF raised' = "none" THEN to ELSE "crashed"
    /\ calls' = calls + 1
    /\ UNCHANGED cfgVars

MainSignal ==
    /\ IF GENERATE_SIGNAL
       THEN generate_input_signal
       ELSE \E samples \in Signals, file_fs \in FileRates :
                load_input_signal(samples, file_fs)
    /\ Step("start", "plan")

MainPlan ==
    /\ calculate_centers(BASE_FREQUENCY, MainBandCount)
    /\ Step("plan", "design")

MainDesign ==
    /\ plot_bandpass_filter_response
    /\ Step("design", "python")

MainPython ==
    /\ apply_filters_and_print_python
    /\ Step("python", "arm")

MainARM ==
    /\ \E u \in CastOutcomes : apply_filters_and_print_ARM(u)
    /\ Step("arm", "done")

Next == MainSignal \/ MainPlan \/ MainDesign \/ MainPython \/ MainARM

Spec == Init /\ [][Next]_vars

\* ------------------------------------------- one SignalProcessor, any order
InitAPI ==
    /\ POSTSHIFT = ConfiguredPostShift
    /\ GENERATE_SIGNAL = TRUE
    /\ butter_table \in ButterTables
    /\ NewProcessor
    /\ pc = "api"

Call ==
    /\ pc = "api"
    /\ calls < MaxCalls
    /\ calls' = calls + 1
    /\ UNCHANGED <<pc, POSTSHIFT, GENERATE_SIGNAL, butter_table>>

ApiBaseFrequencies == {BASE_FREQUENCY, 440}
ApiBandCounts == {NUM_BANDS, NUM_BANDS + 1}

ApiGenerate == Call /\ generate_input_signal

ApiLoad ==
    /\ Call
    /\ \E samples \in Signals, file_fs \in FileRates :
           load_input_signal(samples, file_fs)

ApiPlan ==
    /\ Call
    /\ \E f \in ApiBaseFrequencies, n \in ApiBandCounts : calculate_centers(f, n)

ApiDesign == Call /\ plot_bandpass_filter_response

ApiPython == Call /\ apply_filters_and_print_python

ApiARM == Call /\ \E u \in CastOutcomes : apply_filters_and_print_ARM(u)

NextAPI == ApiGenerate \/ ApiLoad \/ ApiPlan \/ ApiDesign \/ ApiPython \/ ApiARM

SpecAPI == InitAPI /\ [][NextAPI]_vars

\* ------------------------------------------------- calculate_centers alone
BaseFrequencies == (1..MaxBaseFrequency) \cup {BASE_FREQUENCY, 440}

InitPlanner ==
    /\ POSTSHIFT = ConfiguredPostShift
    /\ GENERATE_SIGNAL = TRUE
    /\ butter_table = 0
    /\ input_signal = None
    /\ signal_fs = FS
    /\ sos_list = <<>>
    /\ frequencies = <<>>
    /\ edges = <<>>
    /\ coefs = <<>>
    /\ plan_args \in [f : BaseFrequencies, n : 1..MaxBandCount]
    /\ design_log = <<>>
    /\ design_calls = 0
    /\ design_raised = 0
    /\ scipy_out = <<>>
    /\ arm_out = <<>>
    /\ engines = <<>>
    /\ raised = "none"
    /\ calls = 0
    /\ pc = "planner"

PlannerCall ==
    /\ pc = "planner"
    /\ calculate_centers(plan_args.f, plan_args.n)
    /\ pc' = "planned"
    /\ calls' = calls + 1
    /\ UNCHANGED cfgVars

NextPlanner == PlannerCall

SpecPlanner == InitPlanner /\ [][NextPlanner]_vars

\* ===================================================================== claims
Planned == pc \in {"design", "python", "arm", "done"}
Designed == pc \in {"python", "arm", "done"}

\* x*y as an integer relative to 2^base, for x.h + y.h even (SqRel is x^2).
FreqProduct(x, y, base) == x.m * y.m * Pow(2, ((x.h + y.h) \div 2) - base)

\* C1: for every f > 0 and n >= 1, calculate_centers(f, n) leaves n + 1
\* centres with c_0 = f/2 and c_{i+1} = 2 c_i, and n edges with
\* e_i^2 = c_i c_{i+1} and c_i < e_i < c_{i+1}.
C1_OctavePlan ==
    pc = "planned" =>
        LET f == plan_args.f
            n == plan_args.n
        IN  /\ Len(frequencies) = n + 1
            /\ Len(edges) = n
            /\ SqRel(frequencies[1], -2) = f * f
            /\ \A i \in 1..n :
                  LET lo == frequencies[i].h
                  IN  /\ (frequencies[i].h + frequencies[i + 1].h) % 2 = 0
                      /\ SqRel(frequencies[i + 1], lo)
                            = 4 * SqRel(frequencies[i], lo)
                      /\ SqRel(edges[i], lo)
                            = FreqProduct(frequencies[i], frequencies[i + 1], lo)
                      /\ FreqLess(frequencies[i], edges[i])
                      /\ FreqLess(edges[i], frequencies[i + 1])

C1_Witness ==
    /\ pc = "planned"
    /\ plan_args.f = 440
    /\ plan_args.n = MaxBandCount
    /\ Len(edges) = MaxBandCount

\* C2: whenever an engine has been initialised, the divisor applied to the
\* coefficients (by the design step and by the fixed-point step) equals
\* 2^postShift, the factor the engine re-applies.
C2_ScaleFactorsInverse ==
    engines # <<>> =>
        /\ \A k \in 1..Len(engines) :
              engines[k].divisor = Pow(2, engines[k].postShift)
        /\ \A k \in 1..Len(design_log) :
              design_log[k].divisor = Pow(2, POSTSHIFT)

\* C3 as stated: the run's plan has exactly NUM_BANDS + 1 centres,
\* 50 .. 3200, every edge between its centres and below Nyquist, and
\* NUM_BANDS bands are designed from consecutive edges.
C3_SevenCentres ==
    Planned =>
        /\ Len(frequencies) = NUM_BANDS + 1
        /\ \A k \in 1..Len(frequencies) :
              FreqIsHz(frequencies[k], 50 * Pow(2, k - 1))
        /\ \A k \in 1..Len(edges) :
              /\ FreqLess(frequencies[k], edges[k])
              /\ FreqLess(edges[k], frequencies[k + 1])
              /\ FreqBelowHz(edges[k], FS \div 2)
        /\ Designed => Len(design_log) = NUM_BANDS

\* C3 amended: the run's plan has NUM_BANDS + 2 centres, 50 .. 6400, and
\* NUM_BANDS + 1 edges, every edge strictly between its two centres and below
\* Nyquist; exactly NUM_BANDS bands are designed, band i from
\* (edges[i], edges[i+1]) around the centre frequencies[i+1], so that neither
\* the lowest centre (50) nor the highest (6400) is filtered.
C3_BandPlan ==
    Planned =>
        /\ Len(frequencies) = NUM_BANDS + 2
        /\ Len(edges) = NUM_BANDS + 1
        /\ \A k \in 1..Len(frequencies) :
              FreqIsHz(frequencies[k], 50 * Pow(2, k - 1))
        /\ \A k \in 1..Len(edges) :
              /\ FreqLess(frequencies[k], edges[k])
              /\ FreqLess(edges[k], frequencies[k + 1])
              /\ FreqBelowHz(edges[k], FS \div 2)
        /\ Designed =>
              /\ Len(design_log) = NUM_BANDS
              /\ Len(sos_list) = NUM_BANDS
              /\ \A i \in 1..NUM_BANDS :
                    /\ design_log[i].lowcut = edges[i]
                    /\ design_log[i].highcut = edges[i + 1]
                    /\ FreqLess(design_log[i].lowcut, frequencies[i + 1])
                    /\ FreqLess(frequencies[i + 1], design_log[i].highcut)
                    /\ Len(sos_list[i]) = NUMSTAGES

C3_Witness ==
    /\ pc = "done"
    /\ POSTSHIFT = ConfiguredPostShift
    /\ GENERATE_SIGNAL
    /\ Len(design_log) = NUM_BANDS
    /\ FreqIsHz(frequencies[NUM_BANDS + 2], 6400)

\* C4: no engine is ever initialised from a cascade one of whose rounded
\* coefficients has magnitude 2^QBITS or more (or is not finite).
C4_NoOverflowReachesEngine ==
    \A k \in 1..Len(engines) :
        \A j \in 1..Len(engines[k].coefsQ31) : ~Overflows(engines[k].coefsQ31[j])

\* C5: filters are designed and the signal is filtered only when the rate of
\* the input signal equals FS.
C5_RateChecked ==
    (sos_list # <<>> \/ scipy_out # <<>> \/ engines # <<>>) => signal_fs = FS

\* The coefficient the quantizer is given at position j (1..5) of a stage:
\* (b0, b1, b2, -a1, -a2).
SignedCoef(st, j) ==
    IF j = 1 THEN st.b0 ELSE IF j = 2 THEN st.b1 ELSE IF j = 3 THEN st.b2
    ELSE IF j = 4 THEN -st.a1 ELSE -st.a2

CascadeInRange(sos, divisor) ==
    /\ divisor > 0
    /\ \A s \in 1..Len(sos) : \A j \in 1..5 :
          Abs(SignedCoef(sos[s], j)) < divisor * CoefDen

\* C6: for every band whose cascade is within range (|c| < divisor), the
\* quantizer emits 5 values per stage, in stage order, for
\* (b0, b1, b2, -a1, -a2); each is finite and a nearest integer to
\* c / divisor * 2^QBITS, and q * divisor / 2^QBITS is within
\* divisor * 2^-QBITS of c. (With c = num / CoefDen both bounds are multiplied
\* through by CoefDen * 2^QBITS.)
C6_QuantizerRoundTrip ==
    \A k \in 1..Len(engines) :
        LET e == engines[k]
            sos == sos_list[k]
        IN  CascadeInRange(sos, e.divisor) =>
              /\ Len(e.coefsQ31) = 5 * NUMSTAGES
              /\ k = Len(engines) => coefs = e.coefsQ31
              /\ \A s \in 1..NUMSTAGES : \A j \in 1..5 :
                    LET q == e.coefsQ31[5 * (s - 1) + j]
                        c == SignedCoef(sos[s], j)
                    IN  /\ q.k = "fin"
                        /\ Abs(q.v * e.divisor * CoefDen - c * QOne)
                              <= e.divisor * CoefDen
                        /\ 2 * Abs(q.v * e.divisor * CoefDen - c * QOne)
                              <= e.divisor * CoefDen

C6_Witness ==
    /\ pc = "done"
    /\ POSTSHIFT = ConfiguredPostShift
    /\ Len(engines) = NUM_BANDS
    /\ CascadeInRange(sos_list[1], engines[1].divisor)
    /\ sos_list[1][1].a1 # 0
    /\ \E j \in 1..(5 * NUMSTAGES) :
          (engines[1].coefsQ31[j].v * engines[1].divisor * CoefDen) % QOne # 0

ZeroState == [j \in 1..(4 * NUMSTAGES) |-> 0]

\* C8: every instance of the fixed-point run is created for one band, in band
\* order, over a fresh all-zero state of 4 words per stage, whatever the
\* previous band left in its own state; its output is that of one pass over
\* the whole buffer from that zero state, and at the end of the buffer the
\* state still holds the latest samples (it was not reset on the way).
C8_FreshStatePerBand ==
    \A k \in 1..Len(engines) :
        LET e == engines[k]
            L == Len(e.src)
        IN  /\ e.band = k - 1
            /\ Len(e.pState0) = 4 * NUMSTAGES
            /\ e.pState0 = ZeroState
            /\ e.postShift = POSTSHIFT
            /\ e.ran =>
                  /\ e.src = SignalQ31(input_signal, "saturate")
                  /\ Len(e.out) = L
                  /\ e.out = Df1Cascade(e.pCoeffs, ZeroState, e.src,
                                        e.postShift, NUMSTAGES).out
                  /\ e.pStateN[1] = e.src[L]
                  /\ e.pStateN[2] = (IF L >= 2 THEN e.src[L - 1] ELSE 0)
                  /\ e.pStateN[4 * NUMSTAGES - 1] = e.out[L]
                  /\ e.pStateN[4 * NUMSTAGES]
                        = (IF L >= 2 THEN e.out[L - 1] ELSE 0)

C8_Witness ==
    /\ pc = "done"
    /\ Len(engines) = NUM_BANDS
    /\ Len(input_signal) >= 2
    /\ \A k \in 1..NUM_BANDS :
          /\ engines[k].ran
          /\ engines[k].pStateN # ZeroState
          /\ engines[k].pStateN[4 * NUMSTAGES] # 0

\* C9: in both paths the output written has as many samples as the input and
\* each sample is the plain sum, over the NUM_BANDS bands in index order, of
\* the band's filtered sample: gain 1, no clipping, no normalisation.
C9_MixIsPlainSum ==
    /\ pc \in {"arm", "done"} =>
          /\ Len(scipy_out) = Len(input_signal)
          /\ \A t \in 1..Len(input_signal) :
                scipy_out[t] =
                    SumBands([k \in 1..NUM_BANDS |->
                                 sosfilt(sos_list[k], input_signal)],
                             t, NUM_BANDS)
    /\ pc = "done" =>
          /\ Len(engines) = NUM_BANDS
          /\ Len(arm_out) = Len(input_signal)
          /\ \A t \in 1..Len(input_signal) :
                arm_out[t] =
                    SumBands([k \in 1..NUM_BANDS |-> engines[k].res2],
                             t, NUM_BANDS)

\* A run whose mixed fixed-point output leaves the nominal range [-1, 1).
C9_Witness ==
    /\ pc = "done"
    /\ Len(scipy_out) = MaxSigLen
    /\ \E t \in 1..Len(arm_out) : arm_out[t] > QOne \/ arm_out[t] < -QOne
    /\ \E k \in 1..NUM_BANDS : engines[k].res2 # engines[1].res2

\* C10: once the design step has been invoked (one or more times, each time
\* returning normally), sos_list holds exactly NUM_BANDS cascades.
C10_OneCascadePerBand ==
    (design_calls >= 1 /\ design_raised = 0) => Len(sos_list) = NUM_BANDS

====
